---- MODULE Spec2Model ----
(***************************************************************************)
(* Intranet backend: the posts routes (app/routes/posts.py), the identity  *)
(* exchange (app/routes/auth.py), the current-user route (app/routes/me.py)*)
(* and the token issuer (app/security.py), as a state machine over the     *)
(* relational store.                                                       *)
(*                                                                         *)
(* Every table is a sequence of rows in primary-key order.  Every handler  *)
(* is one action and leaves its HTTP response in resp.  The ORM models of  *)
(* app/models/post.py are not among the sources: what they decide (column  *)
(* defaults, relationship order, cascade) is modelled from the written     *)
(* specification and marked so in the map of definitions.                  *)
(***************************************************************************)
EXTENDS Integers, Sequences, FiniteSets, TLC

VARIABLES
    posts,        \* table posts
    attachments,  \* table attachments
    reactions,    \* table reactions
    replies,      \* table replies
    shares,       \* table shares
    views,        \* table post views
    nextId,       \* the next value of each table's id sequence
    now,          \* the clock
    users,        \* table users
    nextUid,      \* number of ids uuid4() has handed out
    inflight,     \* add_reaction requests between two of their queries
    resp          \* the response of the last request served

dbPosts == <<posts, attachments, reactions, replies, shares, views, nextId>>
dbAuth  == <<users, nextUid>>
vars    == <<posts, attachments, reactions, replies, shares, views, nextId,
             now, users, nextUid, inflight, resp>>

(***************************************************************************)
(* Values                                                                  *)
(***************************************************************************)
\* Python's None, SQL's NULL, a form field that was not sent
Null == "<None>"

Range(s) == {s[i] : i \in DOMAIN s}

SeqsUpTo(S, n) == UNION {[1..k -> S] : k \in 0..n}

Min(a, b) == IF a <= b THEN a ELSE b

\* x or y, for x a string or None
Or(x, y) == IF x = Null \/ x = "" THEN y ELSE x

\* str.lower() and SQL lower() on the labels the model uses
Lower(s) ==
    CASE s = "Like" -> "like"
      [] s = "LIKE" -> "like"
      [] s = "Love" -> "love"
      [] OTHER      -> s

\* (f.content_type or '').startswith('image/')
StartsWithImage(s) == s \in {"image/png", "image/jpeg"}

\* an optional timestamp column
NoTime    == [present |-> FALSE, at |-> 0]
TimeAt(t) == [present |-> TRUE, at |-> t]

(***************************************************************************)
(* The store                                                               *)
(***************************************************************************)
\* db.query(Post).filter(Post.id == post_id).first(): <<>> or <<the row>>
PostById(post_id) == SelectSeq(posts, LAMBDA p : p.id = post_id)

\* the rows of a table that reference a post, in id order
OfPost(table, post_id) == SelectSeq(table, LAMBDA r : r.post_id = post_id)

\* db.query(X).filter(X.post_id == p.id).count()
CountOfPost(table, post_id) == Len(OfPost(table, post_id))

\* dict(db.query(X.post_id, func.count(X.id)).filter(X.post_id.in_(post_ids))
\*        .group_by(X.post_id).all()) if post_ids else {}
GroupedCounts(table, post_ids) ==
    IF post_ids = <<>> THEN [k \in {} |-> 0]
    ELSE LET keys == {r.post_id : r \in Range(table)} \cap Range(post_ids)
         IN  [k \in keys |-> Cardinality({i \in DOMAIN table : table[i].post_id = k})]

\* d.get(k, default)
DictGet(d, k, default) == IF k \in DOMAIN d THEN d[k] ELSE default

\* the comparison of the labels as they are stored and sent
MatchingReactions_case_sensitive(post_id, user, reaction) ==
    SelectSeq(reactions, LAMBDA r :
        r.post_id = post_id /\ r.user = user /\ r.reaction = reaction)

\* func.lower(Reaction.reaction) == (reaction or '').lower(), with post and user:
\* a NULL label compares to nothing
MatchingReactions(post_id, user, reaction) ==
    SelectSeq(reactions, LAMBDA r :
        /\ r.post_id = post_id
        /\ r.user = user
        /\ r.reaction # Null
        /\ Lower(r.reaction) = Lower(Or(reaction, "")))

\* Post.created_at: the column default is the time of the insert
CreatedAtDefault(t) == t

\* PostView.viewed_at: an optional column; the insert leaves it unset or the
\* column default stamps it
ViewedAtDefaults(t) == {NoTime, TimeAt(t)}

\* db.delete(p): the post's row goes, and with it every row that references it
CascadeDelete(table, post_id) == SelectSeq(table, LAMBDA r : r.post_id # post_id)

(***************************************************************************)
(* Responses                                                               *)
(***************************************************************************)
Response(op, req, status, body) ==
    [op |-> op, req |-> req, status |-> status, body |-> body]

HTTPException(op, req, status, detail) ==
    Response(op, req, status, [detail |-> detail])

\* an exception no handler catches
ServerError(op, req, what) == Response(op, req, 500, [detail |-> what])

(***************************************************************************)
(* Engagement lists                                                        *)
(***************************************************************************)
\* u in xs
In(u, xs) == \E i \in DOMAIN xs : xs[i] = u

\* xs.remove(u): the first occurrence goes
ListRemove(xs, u) ==
    IF ~In(u, xs) THEN xs
    ELSE LET k == CHOOSE i \in DOMAIN xs : xs[i] = u /\ \A j \in 1..(i - 1) : xs[j] # u
         IN  [i \in 1..(Len(xs) - 1) |-> IF i < k THEN xs[i] ELSE xs[i + 1]]

\* the append without the remove, for a user the list does not hold yet
MoveToEnd_keep_first(xs, u) == IF In(u, xs) THEN xs ELSE Append(xs, u)

\* if u in xs: xs.remove(u); xs.append(u)
MoveToEnd(xs, u) == Append(ListRemove(xs, u), u)

\* the loop over p.reactions that builds _liked_users
RECURSIVE liked_users(_, _)
liked_users(rs, acc) ==
    IF rs = <<>> THEN acc
    ELSE LET r == Head(rs)
         IN  IF Lower(Or(r.reaction, "")) = "like"
             THEN liked_users(Tail(rs), MoveToEnd(acc, r.user))
             ELSE liked_users(Tail(rs), acc)

\* key=lambda x: getattr(x, 'viewed_at', None) or x.id
SortKey(v) ==
    IF v.viewed_at.present THEN [type |-> "datetime", val |-> v.viewed_at.at]
    ELSE [type |-> "int", val |-> v.id]

\* a datetime and an int do not compare: '<' raises TypeError
Comparable(vs) == \A i, j \in DOMAIN vs : SortKey(vs[i]).type = SortKey(vs[j]).type

\* insertion of x into a sorted list behind every element that is not greater
RECURSIVE InsertSorted(_, _)
InsertSorted(sorted, x) ==
    IF sorted = <<>> THEN <<x>>
    ELSE IF SortKey(x).val < SortKey(Head(sorted)).val
         THEN <<x>> \o sorted
         ELSE <<Head(sorted)>> \o InsertSorted(Tail(sorted), x)

\* sorted(p.views, key=...): stable, ascending
RECURSIVE SortedViews(_, _)
SortedViews(vs, acc) ==
    IF vs = <<>> THEN acc ELSE SortedViews(Tail(vs), InsertSorted(acc, Head(vs)))

\* the loop over the sorted views that builds _seen_by
RECURSIVE seen_by(_, _)
seen_by(vs, acc) ==
    IF vs = <<>> THEN acc ELSE seen_by(Tail(vs), MoveToEnd(acc, Head(vs).user))

\* the fields every PostResponse takes from the post row and its collections
PostFields(p) ==
    [id            |-> p.id,
     title         |-> p.title,
     description   |-> p.description,
     author        |-> p.author,
     announce_type |-> p.announce_type,
     created_at    |-> p.created_at,
     attachments   |-> OfPost(attachments, p.id),
     reactions     |-> OfPost(reactions, p.id)]

\* the PostResponse of get_post
GetPostBody(p) ==
    [post          |-> PostFields(p),
     views_count   |-> CountOfPost(views, p.id),
     replies_count |-> CountOfPost(replies, p.id),
     shares_count  |-> CountOfPost(shares, p.id),
     liked_users   |-> liked_users(OfPost(reactions, p.id), <<>>),
     seen_by       |-> seen_by(SortedViews(OfPost(views, p.id), <<>>), <<>>)]

\* one PostResponse of list_posts, with the batched counts
ListPostBody(p, views_counts, replies_counts, shares_counts) ==
    [post          |-> PostFields(p),
     views_count   |-> DictGet(views_counts, p.id, 0),
     replies_count |-> DictGet(replies_counts, p.id, 0),
     shares_count  |-> DictGet(shares_counts, p.id, 0),
     liked_users   |-> liked_users(OfPost(reactions, p.id), <<>>),
     seen_by       |-> seen_by(SortedViews(OfPost(views, p.id), <<>>), <<>>)]

\* .order_by(Post.created_at.desc()): the orders the store may return, rows of
\* equal creation time in either order
DescOrders ==
    LET n == Len(posts)
    IN  {[i \in 1..n |-> posts[f[i]]] :
            f \in {g \in [1..n -> 1..n] :
                     /\ \A i, j \in 1..n : i # j => g[i] # g[j]
                     /\ \A i \in 1..(n - 1) :
                            posts[g[i]].created_at >= posts[g[i + 1]].created_at}}

\* the limit without the offset
OffsetLimit_no_offset(rows, skip, limit) == SubSeq(rows, 1, Min(Len(rows), limit))

\* .offset(skip).limit(limit)
OffsetLimit(rows, skip, limit) == SubSeq(rows, skip + 1, Min(Len(rows), skip + limit))

(***************************************************************************)
(* Handlers of app/routes/posts.py.  t is the time the request is served.  *)
(***************************************************************************)
\* the Attachment rows built from the uploaded files, ids from first on
NewAttachments(post_id, files, first) ==
    [i \in 1..Len(files) |->
        [id           |-> first + i - 1,
         post_id      |-> post_id,
         filename     |-> files[i].filename,
         content_type |-> Or(files[i].content_type, "application/octet-stream"),
         size         |-> files[i].size,
         is_image     |-> StartsWithImage(Or(files[i].content_type, ""))]]

create_post(title, description, author, announce_type, files, t) ==
    LET req  == [title |-> title, description |-> description, author |-> author,
                 announce_type |-> announce_type, files |-> files]
        post == [id |-> nextId.post, title |-> title, description |-> description,
                 author |-> author, announce_type |-> announce_type,
                 created_at |-> CreatedAtDefault(t)]
        atts == NewAttachments(post.id, files, nextId.attachment)
    IN  /\ posts' = Append(posts, post)
        /\ attachments' = attachments \o atts
        /\ nextId' = [nextId EXCEPT !.post = @ + 1, !.attachment = @ + Len(files)]
        /\ now' = t
        /\ resp' = Response("create_post", req, 201,
                     [post |-> [id |-> post.id, title |-> post.title,
                                description |-> post.description,
                                author |-> post.author,
                                announce_type |-> post.announce_type,
                                created_at |-> post.created_at,
                                attachments |-> atts,
                                reactions |-> <<>>],
                      views_count |-> CountOfPost(views, post.id)])
        /\ UNCHANGED <<reactions, replies, shares, views, users, nextUid, inflight>>

list_posts(skip, limit) ==
    LET req == [skip |-> skip, limit |-> limit]
    IN  /\ \E ordered \in DescOrders :
            LET items          == OffsetLimit(ordered, skip, limit)
                post_ids       == [i \in DOMAIN items |-> items[i].id]
                views_counts   == GroupedCounts(views, post_ids)
                replies_counts == GroupedCounts(replies, post_ids)
                shares_counts  == GroupedCounts(shares, post_ids)
            IN  resp' =
                  IF \E i \in DOMAIN items : ~Comparable(OfPost(views, items[i].id))
                  THEN ServerError("list_posts", req, "TypeError")
                  ELSE Response("list_posts", req, 200,
                         [total |-> Len(posts),
                          posts |-> [i \in DOMAIN items |->
                                       ListPostBody(items[i], views_counts,
                                                    replies_counts, shares_counts)]])
        /\ UNCHANGED <<dbPosts, now, dbAuth, inflight>>

get_post(post_id) ==
    LET req == [post_id |-> post_id]
        p   == PostById(post_id)
    IN  /\ resp' =
              IF p = <<>> THEN HTTPException("get_post", req, 404, "Post not found")
              ELSE IF ~Comparable(OfPost(views, post_id))
                   THEN ServerError("get_post", req, "TypeError")
                   ELSE Response("get_post", req, 200, GetPostBody(p[1]))
        /\ UNCHANGED <<dbPosts, now, dbAuth, inflight>>

get_attachment(post_id, att_id) ==
    LET req == [post_id |-> post_id, att_id |-> att_id]
        att == SelectSeq(attachments, LAMBDA a : a.id = att_id /\ a.post_id = post_id)
    IN  /\ resp' =
              IF att = <<>>
              THEN HTTPException("get_attachment", req, 404, "Attachment not found")
              ELSE Response("get_attachment", req, 200,
                            [media_type |-> att[1].content_type,
                             filename   |-> att[1].filename])
        /\ UNCHANGED <<dbPosts, now, dbAuth, inflight>>

list_replies(post_id) ==
    LET req == [post_id |-> post_id]
    IN  /\ resp' =
              IF PostById(post_id) = <<>>
              THEN HTTPException("list_replies", req, 404, "Post not found")
              ELSE Response("list_replies", req, 200, OfPost(replies, post_id))
        /\ UNCHANGED <<dbPosts, now, dbAuth, inflight>>

add_reply(post_id, user, content) ==
    LET req == [post_id |-> post_id, user |-> user, content |-> content]
        r   == [id |-> nextId.reply, post_id |-> post_id, user |-> user,
                content |-> content]
    IN  IF PostById(post_id) = <<>>
        THEN /\ resp' = HTTPException("add_reply", req, 404, "Post not found")
             /\ UNCHANGED <<dbPosts, now, dbAuth, inflight>>
        ELSE /\ replies' = Append(replies, r)
             /\ nextId' = [nextId EXCEPT !.reply = @ + 1]
             /\ resp' = Response("add_reply", req, 201, r)
             /\ UNCHANGED <<posts, attachments, reactions, shares, views, now,
                            dbAuth, inflight>>

\* add_share without the lookup of the post
add_share_unchecked(post_id, user, platform) ==
    LET req == [post_id |-> post_id, user |-> user, platform |-> platform]
        s   == [id |-> nextId.share, post_id |-> post_id, user |-> user,
                platform |-> platform]
    IN  /\ shares' = Append(shares, s)
        /\ nextId' = [nextId EXCEPT !.share = @ + 1]
        /\ resp' = Response("add_share", req, 201, s)
        /\ UNCHANGED <<posts, attachments, reactions, replies, views, now,
                       dbAuth, inflight>>

add_share(post_id, user, platform) ==
    LET req == [post_id |-> post_id, user |-> user, platform |-> platform]
        s   == [id |-> nextId.share, post_id |-> post_id, user |-> user,
                platform |-> platform]
    IN  IF PostById(post_id) = <<>>
        THEN /\ resp' = HTTPException("add_share", req, 404, "Post not found")
             /\ UNCHANGED <<dbPosts, now, dbAuth, inflight>>
        ELSE /\ shares' = Append(shares, s)
             /\ nextId' = [nextId EXCEPT !.share = @ + 1]
             /\ resp' = Response("add_share", req, 201, s)
             /\ UNCHANGED <<posts, attachments, reactions, replies, views, now,
                            dbAuth, inflight>>

\* the assignments without their tests for None
UpdatedFields_unconditional(p, title, description, announce_type) ==
    [p EXCEPT !.title = title, !.description = description,
              !.announce_type = announce_type]

\* p.title = title, and so on, for the fields that are not None
UpdatedFields(p, title, description, announce_type) ==
    [p EXCEPT !.title         = IF title # Null THEN title ELSE @,
              !.description   = IF description # Null THEN description ELSE @,
              !.announce_type = IF announce_type # Null THEN announce_type ELSE @]

update_post(post_id, title, description, announce_type, files) ==
    LET req == [post_id |-> post_id, title |-> title, description |-> description,
                announce_type |-> announce_type, files |-> files]
    IN  IF PostById(post_id) = <<>>
        THEN /\ resp' = HTTPException("update_post", req, 404, "Post not found")
             /\ UNCHANGED <<dbPosts, now, dbAuth, inflight>>
        ELSE LET p    == UpdatedFields(PostById(post_id)[1], title, description,
                                       announce_type)
                 atts == NewAttachments(post_id, files, nextId.attachment)
             IN  /\ posts' = [i \in DOMAIN posts |->
                                IF posts[i].id = post_id THEN p ELSE posts[i]]
                 /\ attachments' = attachments \o atts
                 /\ nextId' = [nextId EXCEPT !.attachment = @ + Len(files)]
                 /\ resp' = Response("update_post", req, 200,
                              [post |-> [id |-> p.id, title |-> p.title,
                                         description |-> p.description,
                                         author |-> p.author,
                                         announce_type |-> p.announce_type,
                                         created_at |-> p.created_at,
                                         attachments |->
                                             OfPost(attachments, post_id) \o atts,
                                         reactions |-> OfPost(reactions, post_id)],
                               views_count |-> CountOfPost(views, post_id)])
                 /\ UNCHANGED <<reactions, replies, shares, views, now, dbAuth,
                                inflight>>

\* delete_post that never commits: 204, and nothing is deleted
delete_post_uncommitted(post_id) ==
    LET req == [post_id |-> post_id]
    IN  /\ resp' = IF PostById(post_id) = <<>>
                   THEN HTTPException("delete_post", req, 404, "Post not found")
                   ELSE Response("delete_post", req, 204, <<>>)
        /\ UNCHANGED <<dbPosts, now, dbAuth, inflight>>

delete_post(post_id) ==
    LET req == [post_id |-> post_id]
    IN  IF PostById(post_id) = <<>>
        THEN /\ resp' = HTTPException("delete_post", req, 404, "Post not found")
             /\ UNCHANGED <<dbPosts, now, dbAuth, inflight>>
        ELSE /\ posts' = SelectSeq(posts, LAMBDA p : p.id # post_id)
             /\ attachments' = CascadeDelete(attachments, post_id)
             /\ reactions' = CascadeDelete(reactions, post_id)
             /\ replies' = CascadeDelete(replies, post_id)
             /\ shares' = CascadeDelete(shares, post_id)
             /\ views' = CascadeDelete(views, post_id)
             /\ resp' = Response("delete_post", req, 204, <<>>)
             /\ UNCHANGED <<nextId, now, dbAuth, inflight>>

\* add_reaction served with no other request between its queries
add_reaction(post_id, user, reaction) ==
    LET req      == [post_id |-> post_id, user |-> user, reaction |-> reaction]
        existing == MatchingReactions(post_id, user, reaction)
        r        == [id |-> nextId.reaction, post_id |-> post_id, user |-> user,
                     reaction |-> reaction]
    IN  IF PostById(post_id) = <<>>
        THEN /\ resp' = HTTPException("add_reaction", req, 404, "Post not found")
             /\ UNCHANGED <<dbPosts, now, dbAuth, inflight>>
        ELSE IF existing # <<>>
             THEN /\ \E i \in DOMAIN existing :
                        resp' = Response("add_reaction", req, 201, existing[i])
                  /\ UNCHANGED <<dbPosts, now, dbAuth, inflight>>
             ELSE /\ reactions' = Append(reactions, r)
                  /\ nextId' = [nextId EXCEPT !.reaction = @ + 1]
                  /\ resp' = Response("add_reaction", req, 201, r)
                  /\ UNCHANGED <<posts, attachments, replies, shares, views, now,
                                 dbAuth, inflight>>

remove_reaction(post_id, user, reaction) ==
    LET req      == [post_id |-> post_id, user |-> user, reaction |-> reaction]
        existing == MatchingReactions(post_id, user, reaction)
    IN  IF PostById(post_id) = <<>>
        THEN /\ resp' = HTTPException("remove_reaction", req, 404, "Post not found")
             /\ UNCHANGED <<dbPosts, now, dbAuth, inflight>>
        ELSE IF existing = <<>>
             THEN /\ resp' = Response("remove_reaction", req, 200,
                                      [status |-> "not_found"])
                  /\ UNCHANGED <<dbPosts, now, dbAuth, inflight>>
             ELSE /\ reactions' = SelectSeq(reactions,
                                      LAMBDA r : r \notin Range(existing))
                  /\ resp' = Response("remove_reaction", req, 200,
                               [status |-> "deleted", deleted |-> Len(existing)])
                  /\ UNCHANGED <<posts, attachments, replies, shares, views, nextId,
                                 now, dbAuth, inflight>>

add_view(post_id, user, t) ==
    LET req == [post_id |-> post_id, user |-> user]
    IN  IF PostById(post_id) = <<>>
        THEN /\ resp' = HTTPException("add_view", req, 404, "Post not found")
             /\ UNCHANGED <<dbPosts, now, dbAuth, inflight>>
        ELSE /\ \E viewed_at \in ViewedAtDefaults(t) :
                    views' = Append(views, [id |-> nextId.view, post_id |-> post_id,
                                            user |-> user, viewed_at |-> viewed_at])
             /\ nextId' = [nextId EXCEPT !.view = @ + 1]
             /\ now' = t
             /\ resp' = Response("add_view", req, 201, [status |-> "ok"])
             /\ UNCHANGED <<posts, attachments, reactions, replies, shares,
                            dbAuth, inflight>>

(***************************************************************************)
(* add_reaction as the server runs it beside other requests: its three     *)
(* queries are three steps, and other requests may be served in between.   *)
(***************************************************************************)
Idle == [pc |-> "idle"]

\* the post lookup
add_reaction_begin(k, post_id, user, reaction) ==
    LET req == [post_id |-> post_id, user |-> user, reaction |-> reaction]
    IN  /\ inflight[k] = Idle
        /\ IF PostById(post_id) = <<>>
           THEN /\ resp' = HTTPException("add_reaction", req, 404, "Post not found")
                /\ UNCHANGED inflight
           ELSE /\ inflight' = [inflight EXCEPT ![k] = [pc |-> "check", req |-> req]]
                /\ UNCHANGED resp
        /\ UNCHANGED <<dbPosts, now, dbAuth>>

\* the duplicate check
add_reaction_check(k) ==
    /\ inflight[k].pc = "check"
    /\ LET req      == inflight[k].req
           existing == MatchingReactions(req.post_id, req.user, req.reaction)
       IN  IF existing # <<>>
           THEN /\ \E i \in DOMAIN existing :
                      resp' = Response("add_reaction", req, 201, existing[i])
                /\ inflight' = [inflight EXCEPT ![k] = Idle]
           ELSE /\ inflight' = [inflight EXCEPT ![k].pc = "insert"]
                /\ UNCHANGED resp
    /\ UNCHANGED <<dbPosts, now, dbAuth>>

\* the insert that looks for the row again and stores none if it is there
add_reaction_insert_rechecked(k) ==
    /\ inflight[k].pc = "insert"
    /\ LET req      == inflight[k].req
           existing == MatchingReactions(req.post_id, req.user, req.reaction)
           r        == [id |-> nextId.reaction, post_id |-> req.post_id,
                        user |-> req.user, reaction |-> req.reaction]
       IN  IF PostById(req.post_id) = <<>>
           THEN /\ resp' = ServerError("add_reaction", req, "IntegrityError")
                /\ UNCHANGED dbPosts
           ELSE IF existing # <<>>
           THEN /\ resp' = Response("add_reaction", req, 201, existing[1])
                /\ UNCHANGED dbPosts
           ELSE /\ reactions' = Append(reactions, r)
                /\ nextId' = [nextId EXCEPT !.reaction = @ + 1]
                /\ resp' = Response("add_reaction", req, 201, r)
                /\ UNCHANGED <<posts, attachments, replies, shares, views>>
    /\ inflight' = [inflight EXCEPT ![k] = Idle]
    /\ UNCHANGED <<now, dbAuth>>

\* the insert and its commit; the post's row may have gone meanwhile, and
\* then the reference to it fails the commit
add_reaction_insert(k) ==
    /\ inflight[k].pc = "insert"
    /\ LET req == inflight[k].req
           r   == [id |-> nextId.reaction, post_id |-> req.post_id,
                   user |-> req.user, reaction |-> req.reaction]
       IN  IF PostById(req.post_id) = <<>>
           THEN /\ resp' = ServerError("add_reaction", req, "IntegrityError")
                /\ UNCHANGED dbPosts
           ELSE /\ reactions' = Append(reactions, r)
                /\ nextId' = [nextId EXCEPT !.reaction = @ + 1]
                /\ resp' = Response("add_reaction", req, 201, r)
                /\ UNCHANGED <<posts, attachments, replies, shares, views>>
    /\ inflight' = [inflight EXCEPT ![k] = Idle]
    /\ UNCHANGED <<now, dbAuth>>

(***************************************************************************)
(* The posts routes, one request at a time: a post is created, engaged     *)
(* with, read and deleted.                                                 *)
(***************************************************************************)
MaxPosts == 1        \* posts ever created
MaxAttachments == 1  \* attachments ever stored
MaxRows == 1         \* rows ever inserted into each of the other tables
MaxInflight == 2     \* add_reaction requests served at once

\* the post ids requests name: every id that is ever given out, before the
\* post is created, while it is stored and after it is deleted
PostIdInputs == 1..MaxPosts

PngFile == [filename |-> "a.png", content_type |-> "image/png", size |-> 3]
RawFile == [filename |-> "b.bin", content_type |-> Null, size |-> 5]

NoRequest == Response("none", <<>>, 0, <<>>)

Init ==
    /\ posts = <<>>
    /\ attachments = <<>>
    /\ reactions = <<>>
    /\ replies = <<>>
    /\ shares = <<>>
    /\ views = <<>>
    /\ nextId = [post |-> 1, attachment |-> 1, reaction |-> 1, reply |-> 1,
                 share |-> 1, view |-> 1]
    /\ now = 0
    /\ users = {}
    /\ nextUid = 1
    /\ inflight = [k \in 1..MaxInflight |-> Idle]
    /\ resp = NoRequest

Next ==
    \/ /\ nextId.post <= MaxPosts
       /\ \E files \in {<<>>, <<PngFile>>} :
            /\ nextId.attachment + Len(files) <= MaxAttachments + 1
            /\ create_post("t1", "d1", "alice", Null, files, now)
    \/ \E post_id \in PostIdInputs : get_post(post_id)
    \/ \E post_id \in PostIdInputs, att_id \in 1..MaxAttachments :
            get_attachment(post_id, att_id)
    \/ \E post_id \in PostIdInputs : list_replies(post_id)
    \/ /\ nextId.reply <= MaxRows
       /\ \E post_id \in PostIdInputs : add_reply(post_id, "bob", "hi")
    \/ /\ nextId.share <= MaxRows
       /\ \E post_id \in PostIdInputs : add_share(post_id, "bob", Null)
    \/ \E post_id \in PostIdInputs : delete_post(post_id)
    \/ /\ nextId.reaction <= MaxRows
       /\ \E post_id \in PostIdInputs : add_reaction(post_id, "bob", "like")
    \/ \E post_id \in PostIdInputs : remove_reaction(post_id, "bob", "LIKE")
    \/ /\ nextId.view <= MaxRows
       /\ \E post_id \in PostIdInputs : add_view(post_id, "bob", now)

Spec == Init /\ [][Next]_vars

\* the ids of the posts that were created and deleted
DeletedPostIds == {id \in 1..(nextId.post - 1) : PostById(id) = <<>>}

References(table, post_id) == \E i \in DOMAIN table : table[i].post_id = post_id

HasChildren(post_id) ==
    \/ References(attachments, post_id)
    \/ References(reactions, post_id)
    \/ References(replies, post_id)
    \/ References(shares, post_id)
    \/ References(views, post_id)

\* the requests that address a post or one of its children
AddressingOps ==
    {"get_post", "get_attachment", "list_replies", "add_reply", "add_share",
     "add_reaction", "remove_reaction", "add_view"}

AddOps == {"add_reply", "add_share", "add_reaction", "add_view"}

NewRows(old, new) == {new[i] : i \in DOMAIN new} \ {old[i] : i \in DOMAIN old}

\* C10: a step inserts a reply, share, reaction or view only for a post that
\* exists when the request is served, and add_reply, add_share, add_reaction
\* and add_view on a post id that does not exist answer 404 and leave the
\* four tables as they were.
C10_CreatedOnlyForExistingPost ==
    [][/\ \A r \in NewRows(replies, replies') \cup NewRows(shares, shares')
                   \cup NewRows(reactions, reactions') \cup NewRows(views, views') :
              PostById(r.post_id) # <<>>
       /\ (resp'.op \in AddOps /\ PostById(resp'.req.post_id) = <<>>) =>
              /\ resp'.status = 404
              /\ UNCHANGED <<replies, shares, reactions, views>>]_vars

\* add_share was answered 404 for a post that had existed and was deleted
C10_Witness ==
    /\ resp.op = "add_share" /\ resp.status = 404
    /\ resp.req.post_id \in DeletedPostIds

(***************************************************************************)
(* update_post among posts that have attachments and engagement            *)
(***************************************************************************)
UpdPosts == 2        \* posts ever created
UpdAttachments == 4  \* attachments ever stored
UpdRows == 1         \* reactions, replies, shares and views ever inserted

RowsInserted ==
    (nextId.reaction - 1) + (nextId.reply - 1) + (nextId.share - 1) + (nextId.view - 1)

NextUpdate ==
    \/ /\ nextId.post <= UpdPosts
       /\ nextId.attachment + 1 <= UpdAttachments + 1
       /\ create_post("t1", "d1", "alice", Null, <<PngFile>>, now)
    \/ \E post_id \in 1..UpdPosts,
          fields \in {<<Null, Null, Null>>, <<"t2", Null, Null>>,
                      <<Null, "d2", "news">>},
          files \in {<<>>, <<RawFile, PngFile>>} :
            /\ nextId.attachment + Len(files) <= UpdAttachments + 1
            /\ update_post(post_id, fields[1], fields[2], fields[3], files)
    \/ /\ RowsInserted < UpdRows
       /\ \/ add_reply(1, "bob", "hi")
          \/ add_share(1, "bob", Null)
          \/ add_reaction(1, "bob", "like")
          \/ add_view(1, "bob", now)

SpecUpdate == Init /\ [][NextUpdate]_vars


IsPrefix(s, t) == Len(s) <= Len(t) /\ \A i \in DOMAIN s : t[i] = s[i]

\* C9: a step in which update_post answers 200 for a post sets each of title,
\* description and announce_type to the value sent, or leaves it when none
\* was sent; it leaves the post's id, author and creation time, every other
\* post, every attachment stored before, and all reactions, replies, shares
\* and views as they were; and it stores one new attachment of the post for
\* each uploaded file, in the order of the files.
C9_UpdateFrame ==
    [][(resp'.op = "update_post" /\ resp'.status = 200) =>
         LET req == resp'.req
             old == PostById(req.post_id)
             new == SelectSeq(posts', LAMBDA q : q.id = req.post_id)
         IN  /\ Len(old) = 1 /\ Len(new) = 1
             /\ new[1].title =
                  IF req.title = Null THEN old[1].title ELSE req.title
             /\ new[1].description =
                  IF req.description = Null THEN old[1].description
                  ELSE req.description
             /\ new[1].announce_type =
                  IF req.announce_type = Null THEN old[1].announce_type
                  ELSE req.announce_type
             /\ new[1].author = old[1].author
             /\ new[1].created_at = old[1].created_at
             /\ Len(posts') = Len(posts)
             /\ \A i \in DOMAIN posts :
                    /\ posts'[i].id = posts[i].id
                    /\ posts[i].id # req.post_id => posts'[i] = posts[i]
             /\ IsPrefix(attachments, attachments')
             /\ Len(attachments') = Len(attachments) + Len(req.files)
             /\ \A i \in DOMAIN req.files :
                    LET a == attachments'[Len(attachments) + i]
                    IN  /\ a.post_id = req.post_id
                        /\ a.filename = req.files[i].filename
                        /\ \A j \in DOMAIN attachments : attachments[j].id # a.id
             /\ UNCHANGED <<reactions, replies, shares, views>>]_vars

\* update_post sent a description, an announce type and two files, and no
\* title, to the first post, which had a title from an earlier update, an
\* attachment and a row of engagement, while a second post was stored
C9_Witness ==
    /\ resp.op = "update_post" /\ resp.status = 200
    /\ resp.req.post_id = 1
    /\ resp.req.title = Null /\ resp.req.description = "d2"
    /\ Len(resp.req.files) = 2
    /\ resp.body.post.title = "t2"
    /\ Len(resp.body.post.attachments) = 3
    /\ Len(posts) = 2
    /\ RowsInserted > 0


(***************************************************************************)
(* list_posts over posts created at increasing or equal times              *)
(***************************************************************************)
ListPosts == 3   \* posts ever created
ListTime == 2    \* the clock's last tick

\* the times a request may be served at: now, or a tick later
Times(last) == {t \in {now, now + 1} : t <= last}

NextList ==
    \/ /\ nextId.post <= ListPosts
       /\ \E t \in Times(ListTime) : create_post("t1", Null, "alice", Null, <<>>, t)
    \/ \E post_id \in 1..ListPosts : delete_post(post_id)
    \/ \E skip \in 0..ListPosts, limit \in 0..ListPosts : list_posts(skip, limit)

SpecList == Init /\ [][NextList]_vars

Newer(t)      == Cardinality({i \in DOMAIN posts : posts[i].created_at > t})
NotOlder(t)   == Cardinality({i \in DOMAIN posts : posts[i].created_at >= t})

\* C6: list_posts(skip, limit) answers with total the number of stored posts,
\* whatever skip and limit are, and with the posts at places skip+1 to
\* skip+limit of the stored posts in descending order of creation time: as
\* many posts as that range holds, each a stored post and none twice, in
\* descending order, the post at place k having fewer than k newer posts and
\* at least k posts that are not older.
C6_ListPagination ==
    (resp.op = "list_posts" /\ resp.status = 200) =>
        LET skip  == resp.req.skip
            limit == resp.req.limit
            page  == resp.body.posts
            left  == IF Len(posts) > skip THEN Len(posts) - skip ELSE 0
        IN  /\ resp.body.total = Len(posts)
            /\ Len(page) = Min(limit, left)
            /\ \A i \in DOMAIN page :
                 /\ \E j \in DOMAIN posts :
                        /\ posts[j].id = page[i].post.id
                        /\ posts[j].created_at = page[i].post.created_at
                 /\ Newer(page[i].post.created_at) < skip + i
                 /\ NotOlder(page[i].post.created_at) >= skip + i
            /\ \A i, j \in DOMAIN page :
                 /\ i # j => page[i].post.id # page[j].post.id
                 /\ i < j => page[i].post.created_at >= page[j].post.created_at

\* skip=0 and limit=1 over three stored posts: total 3 and the one post that
\* was created last
C6_Witness ==
    /\ resp.op = "list_posts" /\ resp.status = 200
    /\ resp.req = [skip |-> 0, limit |-> 1]
    /\ Len(posts) = 3
    /\ resp.body.total = 3
    /\ Len(resp.body.posts) = 1
    /\ resp.body.posts[1].post.id = 3
    /\ Newer(resp.body.posts[1].post.created_at) = 0
    /\ NotOlder(resp.body.posts[1].post.created_at) = 1


(***************************************************************************)
(* Reactions, one request at a time                                        *)
(***************************************************************************)
ReactPosts == 1   \* posts ever created
ReactRows == 2    \* reactions ever inserted

ReactUsers  == {"ann", "bob"}
ReactLabels == {"like", "LIKE", "love"}

NextReact ==
    \/ /\ nextId.post <= ReactPosts
       /\ create_post("t1", Null, "alice", Null, <<>>, now)
    \/ \E post_id \in 1..ReactPosts : delete_post(post_id)
    \/ /\ nextId.reaction <= ReactRows
       /\ \E post_id \in 1..ReactPosts, user \in ReactUsers, reaction \in ReactLabels :
            add_reaction(post_id, user, reaction)
    \/ \E post_id \in 1..ReactPosts, user \in ReactUsers, reaction \in ReactLabels :
            remove_reaction(post_id, user, reaction)

SpecReact == Init /\ [][NextReact]_vars

\* labels that are equal when case is ignored
LabelClasses == {{"like", "Like", "LIKE"}, {"love", "Love"}}
SameLabel(a, b) == a = b \/ \E c \in LabelClasses : a \in c /\ b \in c

\* the stored reactions with this post and user and the same label, case ignored
Duplicates(table, post_id, user, reaction) ==
    {i \in DOMAIN table :
        /\ table[i].post_id = post_id
        /\ table[i].user = user
        /\ SameLabel(table[i].reaction, reaction)}

\* C3: add_reaction on an existing post, when a reaction with the same post,
\* the same user and the same label (case ignored) is stored, answers with the
\* id of that reaction and stores nothing; the reaction it answers with is
\* stored afterwards; two such requests served one after the other get the
\* same id, the table no longer after the second; and no request but
\* remove_reaction and delete_post takes a reaction away.
C3_AddReactionIdempotent ==
    [][/\ (resp'.op = "add_reaction" /\ resp'.status = 201) =>
            LET req == resp'.req
                dup == Duplicates(reactions, req.post_id, req.user, req.reaction)
            IN  /\ dup # {} =>
                      /\ reactions' = reactions
                      /\ \E i \in dup : resp'.body.id = reactions[i].id
                /\ \E i \in Duplicates(reactions', req.post_id, req.user,
                                       req.reaction) :
                      resp'.body.id = reactions'[i].id
       /\ ( /\ resp.op = "add_reaction" /\ resp.status = 201
            /\ resp'.op = "add_reaction" /\ resp'.status = 201
            /\ resp'.req.post_id = resp.req.post_id
            /\ resp'.req.user = resp.req.user
            /\ SameLabel(resp'.req.reaction, resp.req.reaction) ) =>
                /\ resp'.body.id = resp.body.id
                /\ Len(reactions') = Len(reactions)
       /\ (\E i \in DOMAIN reactions : \A j \in DOMAIN reactions' :
                reactions'[j].id # reactions[i].id) =>
                resp'.op \in {"remove_reaction", "delete_post"}]_vars

\* a second add_reaction, its label in another case, was answered with the
\* only reaction ever stored
C3_Witness ==
    /\ resp.op = "add_reaction" /\ resp.status = 201
    /\ resp.req.reaction = "LIKE" /\ resp.body.reaction = "like"
    /\ resp.body.id = 1 /\ nextId.reaction = 2 /\ Len(reactions) = 1

(***************************************************************************)
(* Reactions, add_reaction requests served side by side                    *)
(***************************************************************************)
ConcPosts == 1   \* posts ever created
ConcRows == 2    \* reactions ever inserted

NextConc ==
    \/ /\ nextId.post <= ConcPosts
       /\ create_post("t1", Null, "alice", Null, <<>>, now)
    \/ \E post_id \in 1..ConcPosts : delete_post(post_id)
    \/ \E k \in DOMAIN inflight, post_id \in 1..ConcPosts, reaction \in {"like", "LIKE"} :
            add_reaction_begin(k, post_id, "bob", reaction)
    \/ \E k \in DOMAIN inflight : add_reaction_check(k)
    \/ \E k \in DOMAIN inflight :
            /\ nextId.reaction <= ConcRows
            /\ add_reaction_insert(k)
    \/ \E post_id \in 1..ConcPosts, reaction \in {"like", "LIKE"} :
            remove_reaction(post_id, "bob", reaction)

SpecConc == Init /\ [][NextConc]_vars

\* C4: no two stored reactions have the same post, the same user and labels
\* that are equal when case is ignored.
C4_ReactionsUnique ==
    \A i, j \in DOMAIN reactions :
        i # j => ~( /\ reactions[i].post_id = reactions[j].post_id
                    /\ reactions[i].user = reactions[j].user
                    /\ SameLabel(reactions[i].reaction, reactions[j].reaction) )

\* C11: a request passes the duplicate check only when no row with its post,
\* its user and its label (case ignored) is stored at the check, and a request
\* that has passed the check inserts its row whatever has been stored since,
\* as long as the post is there; so two interleaved requests for the same
\* post, user and label both insert, and both rows stay.
C11_CheckThenInsert ==
    [][\A k \in DOMAIN inflight :
          /\ (inflight[k].pc = "check" /\ inflight'[k].pc = "insert") =>
                Duplicates(reactions, inflight[k].req.post_id, inflight[k].req.user,
                           inflight[k].req.reaction) = {}
          /\ ( /\ inflight[k].pc = "insert" /\ inflight'[k] = Idle
               /\ PostById(inflight[k].req.post_id) # <<>> ) =>
                /\ Len(reactions') = Len(reactions) + 1
                /\ reactions'[Len(reactions')].post_id = inflight[k].req.post_id
                /\ reactions'[Len(reactions')].user = inflight[k].req.user
                /\ reactions'[Len(reactions')].reaction = inflight[k].req.reaction
                /\ \A i \in DOMAIN reactions : reactions'[i] = reactions[i]]_vars

\* both requests are done and two rows of the same post and user, with labels
\* that differ in case only, are stored
C11_Witness ==
    /\ \A k \in DOMAIN inflight : inflight[k] = Idle
    /\ Len(reactions) = 2
    /\ reactions[1].post_id = reactions[2].post_id
    /\ reactions[1].user = reactions[2].user
    /\ reactions[1].reaction # reactions[2].reaction
    /\ SameLabel(reactions[1].reaction, reactions[2].reaction)
    /\ resp.op = "add_reaction" /\ resp.status = 201 /\ resp.body = reactions[2]



(***************************************************************************)
(* The engagement lists of a post, over every reaction collection and      *)
(* every view collection up to a length                                    *)
(***************************************************************************)
LikedLen == 4   \* reactions of the post
SeenLen == 3    \* views of the post

ThePost == [id |-> 1, title |-> "t1", description |-> Null, author |-> "alice",
            announce_type |-> Null, created_at |-> 0]

\* a store that holds one post, its reactions and its views
Stored(rs, vs) ==
    /\ posts = <<ThePost>>
    /\ attachments = <<>>
    /\ reactions = [i \in DOMAIN rs |->
                      [id |-> i, post_id |-> 1, user |-> rs[i][1], reaction |-> rs[i][2]]]
    /\ replies = <<>>
    /\ shares = <<>>
    /\ views = [i \in DOMAIN vs |->
                  [id |-> i, post_id |-> 1, user |-> vs[i][1], viewed_at |-> vs[i][2]]]
    /\ nextId = [post |-> 2, attachment |-> 1, reaction |-> Len(rs) + 1, reply |-> 1,
                 share |-> 1, view |-> Len(vs) + 1]
    /\ now = 2
    /\ users = {}
    /\ nextUid = 1
    /\ inflight = [k \in 1..MaxInflight |-> Idle]
    /\ resp = NoRequest

NextRead ==
    \/ get_post(1)
    \/ \E limit \in 0..1 : list_posts(0, limit)

InitLiked ==
    \E rs \in SeqsUpTo({"ann", "bob"} \X {"like", "LIKE", "love", Null}, LikedLen) :
        Stored(rs, <<>>)

SpecLiked == InitLiked /\ [][NextRead]_vars

InitSeen ==
    \E vs \in SeqsUpTo({"ann", "bob"} \X {NoTime, TimeAt(1), TimeAt(2)}, SeenLen) :
        Stored(<<>>, vs)

SpecSeen == InitSeen /\ [][NextRead]_vars

\* the labels that are "like" when case is ignored
IsLike(label) == label \in {"like", "Like", "LIKE"}

\* the place of a user's last like in a reaction collection, 0 for none
LastLike(rs, u) ==
    LET at == {i \in DOMAIN rs : rs[i].user = u /\ IsLike(rs[i].reaction)}
    IN  IF at = {} THEN 0 ELSE CHOOSE i \in at : \A j \in at : j <= i

\* the list holds every user with a like once, and no one else, in the order
\* of their last likes
LikedBy(list, rs) ==
    /\ \A i \in DOMAIN list : LastLike(rs, list[i]) > 0
    /\ \A k \in DOMAIN rs :
          IsLike(rs[k].reaction) => \E i \in DOMAIN list : list[i] = rs[k].user
    /\ \A i, j \in DOMAIN list : i < j => LastLike(rs, list[i]) < LastLike(rs, list[j])

\* the PostResponses of the last request, if it was get_post or list_posts
\* and was answered 200
PostResponses ==
    IF resp.status # 200 THEN <<>>
    ELSE IF resp.op = "get_post" THEN <<resp.body>>
    ELSE IF resp.op = "list_posts" THEN resp.body.posts
    ELSE <<>>

\* C1: the liked_users of get_post and of list_posts hold each user who has a
\* reaction of the post with a label that is "like" when case is ignored
\* exactly once, hold no other user, and are in the order of the users' last
\* such reactions in the post's reaction collection; a reaction with no label
\* adds no user.
C1_LikedUsers ==
    \A i \in DOMAIN PostResponses :
        LikedBy(PostResponses[i].liked_users, OfPost(reactions, PostResponses[i].post.id))

\* the reactions (ann, like), (bob, LIKE), (bob, no label), (ann, like) give
\* bob, then ann
C1_Witness ==
    /\ resp.op = "get_post" /\ resp.status = 200
    /\ [i \in DOMAIN reactions |-> <<reactions[i].user, reactions[i].reaction>>] =
            << <<"ann", "like">>, <<"bob", "LIKE">>, <<"bob", Null>>, <<"ann", "like">> >>
    /\ resp.body.liked_users = <<"bob", "ann">>

\* a view's place in the order of the sort: by viewed_at, or by id without
\* one, and by place in the collection among equals
SortsBefore(a, b) ==
    LET ka == IF a.viewed_at.present THEN a.viewed_at.at ELSE a.id
        kb == IF b.viewed_at.present THEN b.viewed_at.at ELSE b.id
    IN  ka < kb \/ (ka = kb /\ a.id < b.id)

\* a user's last view in the order of the sort
LastViewOf(vs, u) ==
    CHOOSE v \in Range(vs) :
        /\ v.user = u
        /\ \A w \in Range(vs) : (w.user = u /\ w # v) => SortsBefore(w, v)

\* the list holds every viewer once, and no one else, in the order of their
\* last views
SeenBy(list, vs) ==
    /\ \A i \in DOMAIN list : \E v \in Range(vs) : v.user = list[i]
    /\ \A v \in Range(vs) : \E i \in DOMAIN list : list[i] = v.user
    /\ \A i, j \in DOMAIN list :
          i < j => SortsBefore(LastViewOf(vs, list[i]), LastViewOf(vs, list[j]))

\* C2: get_post and list_posts answer 200 whatever views the post has, with
\* and without viewed_at, and their seen_by holds each viewer of the post
\* exactly once, in the order of the viewers' last views when the views are
\* sorted ascending by viewed_at, or by id for a view without one.
C2_SeenBy ==
    /\ (resp.op \in {"get_post", "list_posts"}) => resp.status \in {200, 404}
    /\ \A i \in DOMAIN PostResponses :
          SeenBy(PostResponses[i].seen_by, OfPost(views, PostResponses[i].post.id))

\* the same, of the posts whose views all have a viewed_at or all have none
SeenByOfComparable ==
    /\ (resp.op \in {"get_post", "list_posts"} /\ Comparable(views)) =>
            resp.status \in {200, 404}
    /\ \A i \in DOMAIN PostResponses :
          SeenBy(PostResponses[i].seen_by, OfPost(views, PostResponses[i].post.id))


(***************************************************************************)
(* The three responses that carry a post: get_post, list_posts and         *)
(* update_post with nothing to update                                      *)
(***************************************************************************)
ProjPosts == 1   \* posts ever created
ProjRows == 3    \* reactions, replies, shares and views ever inserted

NextProject ==
    \/ /\ nextId.post <= ProjPosts
       /\ create_post("t1", Null, "alice", Null, <<>>, now)
    \/ /\ RowsInserted < ProjRows
       /\ \E post_id \in 1..ProjPosts :
            \/ add_reply(post_id, "bob", "hi")
            \/ add_share(post_id, "bob", Null)
            \/ add_reaction(post_id, "bob", "like")
            \/ add_view(post_id, "bob", now)
    \/ \E post_id \in 1..ProjPosts : get_post(post_id)
    \/ list_posts(0, ProjPosts)
    \/ \E post_id \in 1..ProjPosts : update_post(post_id, Null, Null, Null, <<>>)

SpecProject == Init /\ [][NextProject]_vars

\* what PostResponse holds for a field the handler does not pass
PostResponseDefaults ==
    [views_count |-> 0, replies_count |-> 0, shares_count |-> 0,
     liked_users |-> <<>>, seen_by |-> <<>>]

\* the counts and lists a PostResponse reports
Engagement(body) ==
    [f \in DOMAIN PostResponseDefaults |->
        IF f \in DOMAIN body THEN body[f] ELSE PostResponseDefaults[f]]

\* the response r carries the post
Carries(r, ops, post_id) ==
    /\ r.op \in ops
    /\ r.status = 200
    /\ IF r.op = "list_posts"
       THEN \E i \in DOMAIN r.body.posts : r.body.posts[i].post.id = post_id
       ELSE r.req.post_id = post_id

\* the PostResponse of the post in the response r
Carried(r, post_id) ==
    IF r.op = "list_posts"
    THEN r.body.posts[CHOOSE i \in DOMAIN r.body.posts :
                            r.body.posts[i].post.id = post_id]
    ELSE r.body

\* two requests among ops for the same post, served one after the other with
\* the same rows stored, report the same counts and lists
SameEngagement(ops) ==
    \A post_id \in 1..ProjPosts :
        ( /\ Carries(resp, ops, post_id)
          /\ Carries(resp', ops, post_id)
          /\ dbPosts' = dbPosts ) =>
            Engagement(Carried(resp', post_id)) = Engagement(Carried(resp, post_id))

\* C12: get_post, list_posts and update_post with no fields and no files,
\* served one after the other for the same post with the same rows stored,
\* report the same views_count, replies_count, shares_count, liked_users and
\* seen_by.
C12_SameProjection ==
    [][SameEngagement({"get_post", "list_posts", "update_post"})]_vars

\* get_post and list_posts report the same counts and lists: the grouped
\* counts of the list are the counts of the single post
GetAndListAgree == [][SameEngagement({"get_post", "list_posts"})]_vars


(***************************************************************************)
(* Tokens (app/security.py), the identity exchange (app/routes/auth.py)    *)
(* and the current user (app/routes/me.py).  Time is in minutes.           *)
(***************************************************************************)
ACCESS_TOKEN_EXPIRE_MINUTES == 60
REFRESH_TOKEN_EXPIRE_DAYS == 7
MinutesPerDay == 24 * 60

\* jwt.encode(to_encode, INTRANET_SECRET_KEY, algorithm=ALGORITHM): the claims
\* under the local signature
create_access_token(data, expires_delta, t) ==
    [sig |-> "local", sub |-> data.sub, type |-> data.type,
     exp |-> TimeAt(t + expires_delta)]

\* the access token and the refresh token of a user
create_tokens(user_id, t) ==
    [access_token  |-> create_access_token([sub |-> user_id, type |-> Null],
                                           ACCESS_TOKEN_EXPIRE_MINUTES, t),
     refresh_token |-> create_access_token([sub |-> user_id, type |-> "refresh"],
                                           REFRESH_TOKEN_EXPIRE_DAYS * MinutesPerDay, t)]

\* the decoding without the check of exp
jwt_decode_no_exp(token, t) ==
    IF token.sig # "local" THEN [ok |-> FALSE] ELSE [ok |-> TRUE, payload |-> token]

\* jwt.decode(token, INTRANET_SECRET_KEY, algorithms=[ALGORITHM]): raises for a
\* token that does not parse, for another signature and for an exp that has
\* passed
jwt_decode(token, t) ==
    IF token.sig # "local" THEN [ok |-> FALSE]
    ELSE IF token.exp.present /\ token.exp.at < t THEN [ok |-> FALSE]
    ELSE [ok |-> TRUE, payload |-> token]

\* get_current_user that takes no token marked as a refresh token
get_current_user_access_only(token, t) ==
    LET decoded == jwt_decode(token, t)
        user_id == IF decoded.ok THEN decoded.payload.sub ELSE Null
        found   == {u \in users : u.id = user_id}
    IN  IF ~decoded.ok \/ user_id = Null \/ user_id = "" \/ token.type = "refresh"
        THEN [ok |-> FALSE, status |-> 401, detail |-> "Invalid token"]
        ELSE IF found = {}
             THEN [ok |-> FALSE, status |-> 401, detail |-> "User not found"]
             ELSE [ok |-> TRUE, user |-> CHOOSE u \in found : TRUE]

\* get_current_user: the user, or the HTTPException raised
get_current_user(token, t) ==
    LET decoded == jwt_decode(token, t)
        user_id == IF decoded.ok THEN decoded.payload.sub ELSE Null
        found   == {u \in users : u.id = user_id}
    IN  IF ~decoded.ok \/ user_id = Null \/ user_id = ""
        THEN [ok |-> FALSE, status |-> 401, detail |-> "Invalid token"]
        ELSE IF found = {}
             THEN [ok |-> FALSE, status |-> 401, detail |-> "User not found"]
             ELSE [ok |-> TRUE, user |-> CHOOSE u \in found : TRUE]

\* GET /api/me; UserResponse declares name a str, and a user without a name
\* fails the validation of the response
me(token) ==
    LET req  == [token |-> token, at |-> now]
        user == get_current_user(token, now)
    IN  /\ resp' =
              IF ~user.ok THEN HTTPException("me", req, user.status, user.detail)
              ELSE IF user.user.name = Null
                   THEN ServerError("me", req, "ResponseValidationError")
                   ELSE Response("me", req, 200,
                                 [id |-> user.user.id, email |-> user.user.email,
                                  name |-> user.user.name])
        /\ UNCHANGED <<dbPosts, now, dbAuth, inflight>>

\* str(uuid4()): an id no user has
uuid4 == "u" \o ToString(nextUid)

\* the exchange that overwrites the stored name with the reported one
exchange_microsoft_token_updates_name(id_token) ==
    LET req  == [id_token |-> id_token, at |-> now]
        old  == {u \in users : u.email = id_token.preferred_username}
        user == IF old = {}
                THEN [id |-> uuid4, email |-> id_token.preferred_username,
                      name |-> id_token.name]
                ELSE [(CHOOSE u \in old : TRUE) EXCEPT !.name = id_token.name]
    IN  /\ id_token.valid /\ Or(id_token.preferred_username, "") # ""
        /\ users' = (users \ old) \cup {user}
        /\ nextUid' = IF old = {} THEN nextUid + 1 ELSE nextUid
        /\ resp' = Response("exchange", req, 200, create_tokens(user.id, now))
        /\ UNCHANGED <<dbPosts, now, inflight>>

\* POST /api/auth/microsoft/exchange; id_token.valid is the verdict of
\* validate_microsoft_id_token, which raises for a token it does not accept
exchange_microsoft_token(id_token) ==
    LET req   == [id_token |-> id_token, at |-> now]
        email == id_token.preferred_username
        name  == id_token.name
        found == {u \in users : u.email = email}
        user  == IF found = {} THEN [id |-> uuid4, email |-> email, name |-> name]
                 ELSE CHOOSE u \in found : TRUE
    IN  IF ~id_token.valid
        THEN /\ resp' = ServerError("exchange", req, "invalid token")
             /\ UNCHANGED <<dbPosts, now, dbAuth, inflight>>
        ELSE IF email = Null \/ email = ""
             THEN /\ resp' = HTTPException("exchange", req, 400,
                                           "Invalid Microsoft token")
                  /\ UNCHANGED <<dbPosts, now, dbAuth, inflight>>
             ELSE /\ users' = users \cup {user}
                  /\ nextUid' = IF found = {} THEN nextUid + 1 ELSE nextUid
                  /\ resp' = Response("exchange", req, 200, create_tokens(user.id, now))
                  /\ UNCHANGED <<dbPosts, now, inflight>>

\* a day passes
tick ==
    /\ now' = now + MinutesPerDay
    /\ UNCHANGED <<dbPosts, dbAuth, inflight, resp>>

AuthDays == 8   \* days on the clock

IdTokens ==
    {[valid |-> FALSE, preferred_username |-> Null, name |-> Null]} \cup
    [valid : {TRUE}, preferred_username : {Null, "", "ann@x.io", "bob@x.io"},
     name : {Null, "Ann", "Annie"}]

\* the bearer tokens sent to /api/me: every token the exchange can have
\* issued, and tokens with another signature, no subject, no user, no exp
BearerTokens ==
    {[sig |-> "malformed", sub |-> Null, type |-> Null, exp |-> NoTime]} \cup
    [sig  : {"local", "other"},
     sub  : {Null, "", "u1", "u2", "u9"},
     type : {Null, "refresh"},
     exp  : {NoTime, TimeAt(ACCESS_TOKEN_EXPIRE_MINUTES),
             TimeAt(REFRESH_TOKEN_EXPIRE_DAYS * MinutesPerDay)}]

NextAuth ==
    \/ \E id_token \in IdTokens : exchange_microsoft_token(id_token)
    \/ \E token \in BearerTokens : me(token)
    \/ /\ now + MinutesPerDay <= AuthDays * MinutesPerDay
       /\ tick

SpecAuth == Init /\ [][NextAuth]_vars

\* what makes a bearer token invalid when it is sent
Malformed(token)   == token.sig = "malformed"
WronglySigned(token) == token.sig = "other"
Expired(token, t)  == token.exp.present /\ token.exp.at < t
LacksSubject(token) == token.sub \in {Null, ""}

\* C7: /api/me answers 401 for a token that is malformed, wrongly signed,
\* expired or without a subject, whether or not its subject is a stored user,
\* and 401 for a valid token whose subject is no stored user; it answers 200
\* only for a token that verifies, is unexpired and has the id of a stored
\* user for subject, and then with that user's id, email and name.
C7_MeRejects ==
    resp.op = "me" =>
        LET token == resp.req.token
            bad   == \/ Malformed(token) \/ WronglySigned(token)
                     \/ Expired(token, resp.req.at) \/ LacksSubject(token)
            known == {u \in users : u.id = token.sub}
        IN  /\ bad => resp.status = 401
            /\ (~bad /\ known = {}) => resp.status = 401
            /\ resp.status = 200 =>
                  /\ ~bad
                  /\ \E u \in known :
                        resp.body = [id |-> u.id, email |-> u.email, name |-> u.name]

\* an expired token with the local signature and the id of a stored user was
\* answered 401
C7_Witness ==
    /\ resp.op = "me" /\ resp.status = 401
    /\ resp.req.token.sig = "local"
    /\ Expired(resp.req.token, resp.req.at)
    /\ \E u \in users : u.id = resp.req.token.sub

\* C8: an exchange that succeeds answers with an access and a refresh token
\* for the one stored user who has the exchange's email; if a user had the
\* email the table of users is as before, else it has one more user, with the
\* email, the reported name and an id no user had; no step changes or removes
\* a stored user; and two exchanges with the same email served one after the
\* other answer with tokens for the same id.
C8_SameUserPerEmail ==
    [][/\ (resp'.op = "exchange" /\ resp'.status = 200) =>
            LET email  == resp'.req.id_token.preferred_username
                before == {u \in users : u.email = email}
                after  == {u \in users' : u.email = email}
            IN  /\ Cardinality(after) = 1
                /\ \A u \in after :
                      /\ resp'.body.access_token.sub = u.id
                      /\ resp'.body.refresh_token.sub = u.id
                /\ before # {} => users' = users
                /\ before = {} =>
                      /\ users' = users \cup after
                      /\ \A u \in after :
                            /\ u.name = resp'.req.id_token.name
                            /\ \A v \in users : v.id # u.id
       /\ users \subseteq users'
       /\ ( /\ resp.op = "exchange" /\ resp.status = 200
            /\ resp'.op = "exchange" /\ resp'.status = 200
            /\ resp'.req.id_token.preferred_username =
                    resp.req.id_token.preferred_username ) =>
                resp'.body.access_token.sub = resp.body.access_token.sub]_vars

\* a later exchange for a stored user's email, with another display name,
\* was answered with tokens for that user, whose name is as it was
C8_Witness ==
    /\ resp.op = "exchange" /\ resp.status = 200
    /\ resp.req.id_token.preferred_username = "ann@x.io"
    /\ resp.req.id_token.name = "Annie"
    /\ resp.body.access_token.sub = "u2"
    /\ users = {[id |-> "u1", email |-> "bob@x.io", name |-> Null],
                [id |-> "u2", email |-> "ann@x.io", name |-> "Ann"]}
    /\ nextUid = 3

(***************************************************************************)
(* The tokens of an exchange, sent to /api/me                              *)
(***************************************************************************)
\* a client sends /api/me a token of the exchange it has just made, at once
\* or days later
NextTokens ==
    \/ NextAuth
    \/ /\ resp.op = "exchange" /\ resp.status = 200
       /\ \E token \in {resp.body.access_token, resp.body.refresh_token} : me(token)

SpecTokens == Init /\ [][NextTokens]_vars

\* the token verifies at the time t and its subject is a stored user
Authenticates(token, t, stored) ==
    /\ token.sig = "local"
    /\ ~Expired(token, t)
    /\ \E u \in stored : u.id = token.sub

\* C14: /api/me is not answered 401 for a token with the local signature,
\* unexpired, whose subject is a stored user, whatever its type marker, and
\* answers with that user if it answers 200; the refresh token of an exchange,
\* sent before its exp, is answered so for the user of the exchange; and two
\* such tokens of the same subject sent one after the other at the same time,
\* the access and the refresh token of an exchange among them, get the same
\* answer.
C14_RefreshTokenAccepted ==
    [][/\ ( /\ resp'.op = "me"
            /\ Authenticates(resp'.req.token, resp'.req.at, users') ) =>
                /\ resp'.status # 401
                /\ resp'.status = 200 => resp'.body.id = resp'.req.token.sub
                /\ \A u \in users' :
                      (u.id = resp'.req.token.sub /\ u.name # Null) =>
                          resp'.status = 200
       /\ ( /\ resp.op = "exchange" /\ resp.status = 200
            /\ resp'.op = "me"
            /\ resp'.req.token = resp.body.refresh_token
            /\ resp'.req.at <= resp.body.refresh_token.exp.at ) =>
                /\ resp'.status # 401
                /\ resp'.status = 200 => resp'.body.id = resp.body.access_token.sub
       /\ ( /\ resp.op = "me" /\ resp'.op = "me"
            /\ resp.req.at = resp'.req.at
            /\ resp.req.token.sub = resp'.req.token.sub
            /\ Authenticates(resp.req.token, resp.req.at, users)
            /\ Authenticates(resp'.req.token, resp'.req.at, users') ) =>
                /\ resp'.status = resp.status
                /\ resp'.body = resp.body]_vars

\* the refresh token of an exchange was answered 200 at a time when the
\* access token of that exchange had expired
C14_Witness ==
    /\ resp.op = "me" /\ resp.status = 200
    /\ resp.req.token.type = "refresh"
    /\ resp.req.token.exp.at > REFRESH_TOKEN_EXPIRE_DAYS * MinutesPerDay
    /\ resp.req.at > resp.req.token.exp.at - REFRESH_TOKEN_EXPIRE_DAYS * MinutesPerDay
                        + ACCESS_TOKEN_EXPIRE_MINUTES
    /\ resp.body.id = resp.req.token.sub


(***************************************************************************)
(* The session of a request (app/database.py): get_db opens it, hands it   *)
(* to the handler at the yield, and closes it in the finally.              *)
(***************************************************************************)
DbRequests == 3   \* requests the server runs at a time

\* how a handler leaves: it returns, or it raises
Outcomes == {"returned", "404", "401", "error"}

NoSession == [pc |-> "none", db |-> "none", outcome |-> "none"]

InitDb ==
    /\ posts = <<>>
    /\ attachments = <<>>
    /\ reactions = <<>>
    /\ replies = <<>>
    /\ shares = <<>>
    /\ views = <<>>
    /\ nextId = [post |-> 1, attachment |-> 1, reaction |-> 1, reply |-> 1,
                 share |-> 1, view |-> 1]
    /\ now = 0
    /\ users = {}
    /\ nextUid = 1
    /\ inflight = [k \in 1..DbRequests |-> NoSession]
    /\ resp = NoRequest

\* db = SessionLocal(), up to the yield: a request comes in where none is in
\* progress
get_db(k) ==
    /\ inflight[k].pc \in {"none", "done"}
    /\ inflight' = [inflight EXCEPT ![k] =
                        [pc |-> "yield", db |-> "open", outcome |-> "none"]]
    /\ UNCHANGED <<dbPosts, now, dbAuth, resp>>

\* the handler runs with the session and leaves the yield, returning or
\* raising
handler(k, outcome) ==
    /\ inflight[k].pc = "yield"
    /\ inflight' = [inflight EXCEPT ![k].pc = "finally", ![k].outcome = outcome]
    /\ UNCHANGED <<dbPosts, now, dbAuth, resp>>

\* db.close() without the try and finally: after an exception it is not run
get_db_close_unprotected(k) ==
    /\ inflight[k].pc = "finally"
    /\ inflight' = [inflight EXCEPT ![k].pc = "done",
                        ![k].db = IF inflight[k].outcome = "returned"
                                  THEN "closed" ELSE "open"]
    /\ UNCHANGED <<dbPosts, now, dbAuth, resp>>

\* finally: db.close(), and the request is finished
get_db_close(k) ==
    /\ inflight[k].pc = "finally"
    /\ inflight' = [inflight EXCEPT ![k].pc = "done", ![k].db = "closed"]
    /\ UNCHANGED <<dbPosts, now, dbAuth, resp>>

NextDb ==
    \/ \E k \in DOMAIN inflight : get_db(k)
    \/ \E k \in DOMAIN inflight, outcome \in Outcomes : handler(k, outcome)
    \/ \E k \in DOMAIN inflight : get_db_close(k)

SpecDb == InitDb /\ [][NextDb]_vars

\* the server runs a handler it has started to its end, and then the rest of
\* the dependency
SpecDbFair ==
    /\ SpecDb
    /\ \A k \in 1..DbRequests :
          /\ WF_vars(\E outcome \in Outcomes : handler(k, outcome))
          /\ WF_vars(get_db_close(k))

SessionsHeld == {k \in DOMAIN inflight : inflight[k].db = "open"}
InProgress   == {k \in DOMAIN inflight : inflight[k].pc \in {"yield", "finally"}}

\* C13: a session that a request holds is closed later, however the handler
\* leaves; no finished request holds a session; and the sessions held are
\* never more than the requests in progress.
C13_SessionReleased ==
    /\ \A k \in 1..DbRequests :
          (inflight[k].db = "open") ~> (inflight[k].db = "closed")
    /\ [](\A k \in DOMAIN inflight : inflight[k].pc = "done" => inflight[k].db = "closed")
    /\ [](Cardinality(SessionsHeld) <= Cardinality(InProgress))

\* a request whose handler raised 404 is finished with its session closed,
\* while another request holds its session
C13_Witness ==
    \E k, j \in DOMAIN inflight :
        /\ inflight[k].pc = "done"
        /\ inflight[k].outcome = "404"
        /\ inflight[k].db = "closed"
        /\ inflight[j].db = "open"

====
